---- MODULE Spec2Model ----
(***************************************************************************)
(* Model of the predictive collision manager (CollisionManager.ts), of the *)
(* entity state it reads (BaseObject.ts) and of the host's render loop     *)
(* (BabylonScene.tsx, Player.ts).                                          *)
(*                                                                         *)
(* Geometry.  Every entity lies on the x axis and moves along it, so a     *)
(* Vector3 (position, velocity, direction) is represented by its x         *)
(* component and Vector3.Distance is the absolute difference.  Lengths are *)
(* counted in tenths of a world unit and times in tenths of a second, so   *)
(* that a velocity keeps its numeric value; the default predictionTime of  *)
(* 0.1 s is 1 and a contact radius of 0.3 is 3.  Bounding extents keep     *)
(* their three components.  Quantities that the code computes as floating  *)
(* point fractions (sample times, projected positions, distances) are      *)
(* exact rationals <<numerator, denominator>> in lowest terms.             *)
(***************************************************************************)
EXTENDS Integers, Sequences, FiniteSets, TLC

VARIABLES collidableObjects, predictionSteps, predictionTime,
          position, velocity, active,
          lastOp, result, calls,
          iter, frame

vars == <<collidableObjects, predictionSteps, predictionTime,
          position, velocity, active, lastOp, result, calls, iter, frame>>

\* the manager's own state
managerVars == <<collidableObjects, predictionSteps, predictionTime>>
\* the entity state the manager reads
entityVars == <<position, velocity, active>>
\* the loop position of a checkPredictiveCollisions call whose callbacks are
\* running, and the state of the host's render loop
runVars == <<iter, frame>>

-----------------------------------------------------------------------------
(* Bounds of the model *)

\* largest total number of entries in the registry, over all groups
MaxRegistered == 3

\* largest number of prediction steps the host configures
MaxSteps == 3

\* largest number of frames the render loop draws
MaxFrames == 3

(* Program constants *)

DefaultPredictionSteps == 3
DefaultPredictionTime == 1

-----------------------------------------------------------------------------
(* Exact arithmetic *)

Abs(x) == IF x < 0 THEN -x ELSE x

Sign(x) == IF x < 0 THEN -1 ELSE IF x > 0 THEN 1 ELSE 0

RECURSIVE GCD(_, _)
GCD(a, b) == IF b = 0 THEN a ELSE GCD(b, a % b)

\* the rational n/d (d # 0) in lowest terms with a positive denominator
Rat(n, d) ==
  LET g == GCD(Abs(n), Abs(d))
      s == IF d < 0 THEN -1 ELSE 1
  IN  <<(s * n) \div g, (s * d) \div g>>

RatOfInt(n) == <<n, 1>>
RatAdd(a, b) == Rat(a[1] * b[2] + b[1] * a[2], a[2] * b[2])
RatSub(a, b) == Rat(a[1] * b[2] - b[1] * a[2], a[2] * b[2])
RatMulInt(a, k) == Rat(a[1] * k, a[2])
RatAbs(a) == <<Abs(a[1]), a[2]>>
RatLess(a, b) == a[1] * b[2] < b[1] * a[2]
RatLeq(a, b) == a[1] * b[2] <= b[1] * a[2]

Max(a, b) == IF a >= b THEN a ELSE b

-----------------------------------------------------------------------------
(* Entities *)

Ents == {"e1", "e2", "e3"}

\* e1 and e2 are MovableObjects, e3 is a plain BaseObject
Movable == {"e1", "e2"}

\* the entities of the scene of the ray casts: e4 is one more BaseObject
RayEnts == Ents \cup {"e4"}

Groups == {"A", "B"}

\* half sizes of the axis aligned bounding box of each entity's mesh
extendSize ==
  [e \in RayEnts |->
     IF e = "e3" THEN [x |-> 1, y |-> 3, z |-> 1]
     ELSE IF e = "e4" THEN [x |-> 1, y |-> 1, z |-> 1]
     ELSE [x |-> 3, y |-> 3, z |-> 3]]

\* an absent optional field of a CollisionResult
Undefined == << >>

NoCollision ==
  [willCollide |-> FALSE, collisionPoint |-> Undefined, distance |-> Undefined]

-----------------------------------------------------------------------------
(* BaseObject *)

isActive(obj) == active[obj]

-----------------------------------------------------------------------------
(* CollisionManager: helpers *)

\* collidableObjects.get(group) || []
GetOrEmpty(group) ==
  IF group \in DOMAIN collidableObjects THEN collidableObjects[group] ELSE << >>

getVelocity(obj) == IF obj \in Movable THEN velocity[obj] ELSE 0

getCollisionRadius(obj) ==
  Max(Max(extendSize[obj].x, extendSize[obj].y), extendSize[obj].z)

\* mesh1.intersectsMesh(mesh2, false): the bounding boxes overlap.  The
\* meshes are centred on the x axis, so only the x intervals can be apart.
intersectsMesh(obj1, obj2) ==
  Abs(position[obj1] - position[obj2]) <= extendSize[obj1].x + extendSize[obj2].x

\* Vector3.Distance of two points of the x axis
Distance(p, q) == RatAbs(RatSub(p, q))


\* direction.normalize(): a zero vector stays zero
normalize(direction) == Sign(direction)

\* new BABYLON.Ray(origin, direction, length).intersectsMesh(target): the
\* ray meets the faces of the target's box at x - extent and x + extent;
\* the pick is the nearest face ahead of the origin within the ray's length
rayIntersectsMesh(origin, direction, length, target) ==
  LET faces == {position[target] - extendSize[target].x,
                position[target] + extendSize[target].x}
      ahead == {direction * (f - origin) : f \in faces}
      hits  == {d \in ahead : d >= 0 /\ d <= length}
      dist  == CHOOSE d \in hits : \A e \in hits : d <= e
  IN  IF direction = 0 \/ hits = {}
        THEN [hit |-> FALSE, distance |-> 0, pickedPoint |-> Undefined]
        ELSE [hit |-> TRUE, distance |-> dist,
              pickedPoint |-> RatOfInt(origin + direction * dist)]

-----------------------------------------------------------------------------
(* CollisionManager: the pairwise predictive test *)

\* the sampling loop with distance <= collisionRadius as its test
RECURSIVE predictCollisionLoop_Leq(_, _, _)
predictCollisionLoop_Leq(obj1, obj2, step) ==
  IF step <= predictionSteps
    THEN LET t == Rat(step * predictionTime, predictionSteps)
             predictedPos1 == RatAdd(RatOfInt(position[obj1]),
                                     RatMulInt(t, getVelocity(obj1)))
             predictedPos2 == RatAdd(RatOfInt(position[obj2]),
                                     RatMulInt(t, getVelocity(obj2)))
             distance == Distance(predictedPos1, predictedPos2)
             collisionRadius == getCollisionRadius(obj1) + getCollisionRadius(obj2)
         IN  IF RatLeq(distance, RatOfInt(collisionRadius))
               THEN [res |-> [willCollide |-> TRUE,
                              collisionPoint |-> predictedPos1,
                              distance |-> distance],
                     samples |-> step]
               ELSE predictCollisionLoop_Leq(obj1, obj2, step + 1)
    ELSE [res |-> NoCollision, samples |-> Max(step - 1, 0)]

\* the sampling loop running as many steps as the magnitude of
\* predictionSteps
RECURSIVE predictCollisionLoop_AbsSteps(_, _, _)
predictCollisionLoop_AbsSteps(obj1, obj2, step) ==
  IF step <= Abs(predictionSteps)
    THEN LET t == Rat(step * predictionTime, predictionSteps)
             predictedPos1 == RatAdd(RatOfInt(position[obj1]),
                                     RatMulInt(t, getVelocity(obj1)))
             predictedPos2 == RatAdd(RatOfInt(position[obj2]),
                                     RatMulInt(t, getVelocity(obj2)))
             distance == Distance(predictedPos1, predictedPos2)
             collisionRadius == getCollisionRadius(obj1) + getCollisionRadius(obj2)
         IN  IF RatLess(distance, RatOfInt(collisionRadius))
               THEN [res |-> [willCollide |-> TRUE,
                              collisionPoint |-> predictedPos1,
                              distance |-> distance],
                     samples |-> step]
               ELSE predictCollisionLoop_AbsSteps(obj1, obj2, step + 1)
    ELSE [res |-> NoCollision, samples |-> Max(step - 1, 0)]

\* the sampling loop with each sample taken at the middle of its step,
\* t = ((step - 1/2) / predictionSteps) * predictionTime
RECURSIVE predictCollisionLoop_MidSample(_, _, _)
predictCollisionLoop_MidSample(obj1, obj2, step) ==
  IF step <= predictionSteps
    THEN LET t == Rat((2 * step - 1) * predictionTime, 2 * predictionSteps)
             predictedPos1 == RatAdd(RatOfInt(position[obj1]),
                                     RatMulInt(t, getVelocity(obj1)))
             predictedPos2 == RatAdd(RatOfInt(position[obj2]),
                                     RatMulInt(t, getVelocity(obj2)))
             distance == Distance(predictedPos1, predictedPos2)
             collisionRadius == getCollisionRadius(obj1) + getCollisionRadius(obj2)
         IN  IF RatLess(distance, RatOfInt(collisionRadius))
               THEN [res |-> [willCollide |-> TRUE,
                              collisionPoint |-> predictedPos1,
                              distance |-> distance],
                     samples |-> step]
               ELSE predictCollisionLoop_MidSample(obj1, obj2, step + 1)
    ELSE [res |-> NoCollision, samples |-> Max(step - 1, 0)]

\* the sampling loop of predictCollision, from the given step on; samples
\* counts the steps whose distance was evaluated
RECURSIVE predictCollisionLoop(_, _, _)
predictCollisionLoop(obj1, obj2, step) ==
  IF step <= predictionSteps
    THEN LET t == Rat(step * predictionTime, predictionSteps)
             predictedPos1 == RatAdd(RatOfInt(position[obj1]),
                                     RatMulInt(t, getVelocity(obj1)))
             predictedPos2 == RatAdd(RatOfInt(position[obj2]),
                                     RatMulInt(t, getVelocity(obj2)))
             distance == Distance(predictedPos1, predictedPos2)
             collisionRadius == getCollisionRadius(obj1) + getCollisionRadius(obj2)
         IN  IF RatLess(distance, RatOfInt(collisionRadius))
               THEN [res |-> [willCollide |-> TRUE,
                              collisionPoint |-> predictedPos1,
                              distance |-> distance],
                     samples |-> step]
               ELSE predictCollisionLoop(obj1, obj2, step + 1)
    ELSE [res |-> NoCollision, samples |-> Max(step - 1, 0)]

\* predictCollision with the overlap test moved behind the sampling loop
predictCollision_SamplesFirst(obj1, obj2) ==
  LET r == predictCollisionLoop(obj1, obj2, 1)
  IN  IF ~r.res.willCollide /\ intersectsMesh(obj1, obj2)
        THEN [res |-> [willCollide |-> TRUE,
                       collisionPoint |-> RatOfInt(position[obj1]),
                       distance |-> RatOfInt(0)],
              samples |-> r.samples]
        ELSE r

predictCollision(obj1, obj2) ==
  IF intersectsMesh(obj1, obj2)
    THEN [res |-> [willCollide |-> TRUE,
                   collisionPoint |-> RatOfInt(position[obj1]),
                   distance |-> RatOfInt(0)],
          samples |-> 0]
    ELSE predictCollisionLoop(obj1, obj2, 1)

\* the host's callback: it records the invocation and changes nothing
onCollision(obj1, obj2, r) ==
  << [obj1 |-> obj1, obj2 |-> obj2, result |-> r.res, samples |-> r.samples] >>

\* checkInner without the test of obj2.isActive()
RECURSIVE checkInner_NoActiveTest(_, _, _)
checkInner_NoActiveTest(obj1, objects2, j) ==
  IF j > Len(objects2) THEN << >>
  ELSE LET obj2 == objects2[j]
           r == predictCollision(obj1, obj2)
       IN  (IF r.res.willCollide THEN onCollision(obj1, obj2, r) ELSE << >>)
             \o checkInner_NoActiveTest(obj1, objects2, j + 1)

\* the inner loop of checkPredictiveCollisions, from index j of objects2 on
RECURSIVE checkInner(_, _, _)
checkInner(obj1, objects2, j) ==
  IF j > Len(objects2) THEN << >>
  ELSE LET obj2 == objects2[j] IN
       IF ~isActive(obj2) THEN checkInner(obj1, objects2, j + 1)
       ELSE LET r == predictCollision(obj1, obj2) IN
            (IF r.res.willCollide THEN onCollision(obj1, obj2, r) ELSE << >>)
              \o checkInner(obj1, objects2, j + 1)

\* the outer loop of checkPredictiveCollisions, from index i of objects1 on
RECURSIVE checkOuter(_, _, _)
checkOuter(objects1, objects2, i) ==
  IF i > Len(objects1) THEN << >>
  ELSE LET obj1 == objects1[i] IN
       IF ~isActive(obj1) THEN checkOuter(objects1, objects2, i + 1)
       ELSE checkInner(obj1, objects2, 1) \o checkOuter(objects1, objects2, i + 1)

-----------------------------------------------------------------------------
(* CollisionManager: single entity queries *)

\* predictMovementInner without the test checkObj === obj
RECURSIVE predictMovementInner_NoSelfTest(_, _, _, _)
predictMovementInner_NoSelfTest(obj, predictedPos, checkObjects, j) ==
  IF j > Len(checkObjects) THEN NoCollision
  ELSE LET checkObj == checkObjects[j] IN
       IF ~isActive(checkObj)
         THEN predictMovementInner_NoSelfTest(obj, predictedPos, checkObjects, j + 1)
       ELSE LET distance == Distance(predictedPos, RatOfInt(position[checkObj]))
                collisionRadius ==
                  getCollisionRadius(obj) + getCollisionRadius(checkObj)
            IN  IF RatLess(distance, RatOfInt(collisionRadius))
                  THEN [willCollide |-> TRUE,
                        collisionPoint |-> predictedPos,
                        distance |-> distance]
                  ELSE predictMovementInner_NoSelfTest(obj, predictedPos,
                                                       checkObjects, j + 1)

\* the loop over checkObjects inside one step of predictMovement
RECURSIVE predictMovementInner(_, _, _, _)
predictMovementInner(obj, predictedPos, checkObjects, j) ==
  IF j > Len(checkObjects) THEN NoCollision
  ELSE LET checkObj == checkObjects[j] IN
       IF ~isActive(checkObj) \/ checkObj = obj
         THEN predictMovementInner(obj, predictedPos, checkObjects, j + 1)
       ELSE LET distance == Distance(predictedPos, RatOfInt(position[checkObj]))
                collisionRadius ==
                  getCollisionRadius(obj) + getCollisionRadius(checkObj)
            IN  IF RatLess(distance, RatOfInt(collisionRadius))
                  THEN [willCollide |-> TRUE,
                        collisionPoint |-> predictedPos,
                        distance |-> distance]
                  ELSE predictMovementInner(obj, predictedPos, checkObjects, j + 1)

\* the step loop of predictMovement with the fraction of the displacement
\* scaled by predictionTime, as the sample times of predictCollision are
RECURSIVE predictMovementLoop_TimeScaled(_, _, _, _)
predictMovementLoop_TimeScaled(obj, moveVector, checkObjects, step) ==
  IF step <= predictionSteps
    THEN LET t == Rat(step * predictionTime, predictionSteps)
             predictedPos == RatAdd(RatOfInt(position[obj]), RatMulInt(t, moveVector))
             r == predictMovementInner(obj, predictedPos, checkObjects, 1)
         IN  IF r.willCollide THEN r
             ELSE predictMovementLoop_TimeScaled(obj, moveVector, checkObjects,
                                                 step + 1)
    ELSE NoCollision

\* the loop over the steps of predictMovement
RECURSIVE predictMovementLoop(_, _, _, _)
predictMovementLoop(obj, moveVector, checkObjects, step) ==
  IF step <= predictionSteps
    THEN LET t == Rat(step, predictionSteps)
             predictedPos == RatAdd(RatOfInt(position[obj]), RatMulInt(t, moveVector))
             r == predictMovementInner(obj, predictedPos, checkObjects, 1)
         IN  IF r.willCollide THEN r
             ELSE predictMovementLoop(obj, moveVector, checkObjects, step + 1)
    ELSE NoCollision

\* the loop of raycastPrediction with every hit compared to maxDistance and
\* not to the closest distance found so far
RECURSIVE raycastLoop_LastHit(_, _, _, _, _, _)
raycastLoop_LastHit(obj, direction, maxDistance, checkObjects, j, acc) ==
  IF j > Len(checkObjects) THEN acc
  ELSE LET checkObj == checkObjects[j] IN
       IF ~isActive(checkObj) \/ checkObj = obj
         THEN raycastLoop_LastHit(obj, direction, maxDistance, checkObjects, j + 1, acc)
       ELSE LET pickInfo == rayIntersectsMesh(position[obj], direction,
                                              maxDistance, checkObj)
            IN  IF pickInfo.hit /\ pickInfo.distance < maxDistance
                  THEN raycastLoop_LastHit(obj, direction, maxDistance, checkObjects,
                         j + 1,
                         [willCollide |-> TRUE,
                          closestDistance |-> pickInfo.distance,
                          closestPoint |-> pickInfo.pickedPoint])
                  ELSE raycastLoop_LastHit(obj, direction, maxDistance, checkObjects,
                                           j + 1, acc)

\* the loop of raycastPrediction, from index j on; acc holds closestDistance,
\* closestPoint and willCollide
RECURSIVE raycastLoop(_, _, _, _, _, _)
raycastLoop(obj, direction, maxDistance, checkObjects, j, acc) ==
  IF j > Len(checkObjects) THEN acc
  ELSE LET checkObj == checkObjects[j] IN
       IF ~isActive(checkObj) \/ checkObj = obj
         THEN raycastLoop(obj, direction, maxDistance, checkObjects, j + 1, acc)
       ELSE LET pickInfo == rayIntersectsMesh(position[obj], direction,
                                              maxDistance, checkObj)
            IN  IF pickInfo.hit /\ pickInfo.distance < acc.closestDistance
                  THEN raycastLoop(obj, direction, maxDistance, checkObjects, j + 1,
                         [willCollide |-> TRUE,
                          closestDistance |-> pickInfo.distance,
                          closestPoint |-> pickInfo.pickedPoint])
                  ELSE raycastLoop(obj, direction, maxDistance, checkObjects, j + 1, acc)

-----------------------------------------------------------------------------
(* Initial state *)

\* the scene the host builds: e1 and e2 approach each other, e3 stands
\* behind e2
ScenePosition == [e \in Ents |-> IF e = "e1" THEN 0 ELSE IF e = "e2" THEN 7 ELSE 12]
SceneVelocity == [e \in Ents |-> IF e = "e1" THEN 1 ELSE IF e = "e2" THEN -1 ELSE 0]

\* lastOp records the last call and its arguments; for a call that may change
\* the registry, before is the registry at the moment of the call
NoOp == [op |-> "new"]

\* no checkPredictiveCollisions call is on the stack
Idle == [phase |-> "idle"]

\* the render loop has not been installed
NoFrame == [installed |-> FALSE]

\* new CollisionManager(): the registry is empty, the settings are the defaults
Init ==
  /\ collidableObjects = [g \in {} |-> << >>]
  /\ predictionSteps = DefaultPredictionSteps
  /\ predictionTime = DefaultPredictionTime
  /\ position = ScenePosition
  /\ velocity = SceneVelocity
  /\ active = [e \in Ents |-> TRUE]
  /\ lastOp = NoOp
  /\ result = NoCollision
  /\ calls = << >>
  /\ iter = Idle
  /\ frame = NoFrame

-----------------------------------------------------------------------------
(* Registry operations *)

\* total number of entries of the registry
RECURSIVE SumLen(_)
SumLen(gs) ==
  IF gs = {} THEN 0
  ELSE LET g == CHOOSE x \in gs : TRUE
       IN  Len(collidableObjects[g]) + SumLen(gs \ {g})

Registered == SumLen(DOMAIN collidableObjects)

\* Map.set(group, objects)
MapSet(map, group, objects) ==
  [g \in DOMAIN map \cup {group} |-> IF g = group THEN objects ELSE map[g]]

\* objects.lastIndexOf(object) in the place of indexOf
lastIndexOf(objects, object) ==
  IF \E i \in 1..Len(objects) : objects[i] = object
    THEN CHOOSE i \in 1..Len(objects) :
           /\ objects[i] = object
           /\ \A k \in (i + 1)..Len(objects) : objects[k] # object
    ELSE 0

\* objects.indexOf(object): the first index (from 1), 0 when absent
indexOf(objects, object) ==
  IF \E i \in 1..Len(objects) : objects[i] = object
    THEN CHOOSE i \in 1..Len(objects) :
           /\ objects[i] = object
           /\ \A k \in 1..(i - 1) : objects[k] # object
    ELSE 0

\* objects.splice(index, 1)
splice(objects, index) ==
  [i \in 1..(Len(objects) - 1) |->
     IF i < index THEN objects[i] ELSE objects[i + 1]]

\* a filter that stops at the first inactive entry
RECURSIVE filterActive_Prefix(_)
filterActive_Prefix(objects) ==
  IF objects = << >> \/ ~isActive(Head(objects)) THEN << >>
  ELSE <<Head(objects)>> \o filterActive_Prefix(Tail(objects))

\* objects.filter((obj) => obj.isActive())
filterActive(objects) == SelectSeq(objects, isActive)

\* register without the has(group) test: the group's list is always reset
register_AlwaysSet(group, object) ==
  /\ Registered < MaxRegistered
  /\ collidableObjects' = MapSet(collidableObjects, group, <<object>>)
  /\ lastOp' = [op |-> "register", group |-> group, obj |-> object,
                before |-> collidableObjects]
  /\ result' = NoCollision
  /\ calls' = << >>
  /\ UNCHANGED <<predictionSteps, predictionTime, entityVars>>
  /\ UNCHANGED runVars

register(group, object) ==
  /\ Registered < MaxRegistered
  /\ LET withGroup == IF group \in DOMAIN collidableObjects
                        THEN collidableObjects
                        ELSE MapSet(collidableObjects, group, << >>)
     IN  collidableObjects' =
           [withGroup EXCEPT ![group] = Append(withGroup[group], object)]
  /\ lastOp' = [op |-> "register", group |-> group, obj |-> object,
                before |-> collidableObjects]
  /\ result' = NoCollision
  /\ calls' = << >>
  /\ UNCHANGED <<predictionSteps, predictionTime, entityVars>>
  /\ UNCHANGED runVars

unregister(group, object) ==
  /\ collidableObjects' =
       IF group \in DOMAIN collidableObjects
         THEN LET objects == collidableObjects[group]
                  index == indexOf(objects, object)
              IN  IF index > 0
                    THEN [collidableObjects EXCEPT ![group] = splice(objects, index)]
                    ELSE collidableObjects
         ELSE collidableObjects
  /\ lastOp' = [op |-> "unregister", group |-> group, obj |-> object,
                before |-> collidableObjects]
  /\ result' = NoCollision
  /\ calls' = << >>
  /\ UNCHANGED <<predictionSteps, predictionTime, entityVars>>
  /\ UNCHANGED runVars

cleanup ==
  /\ collidableObjects' =
       [g \in DOMAIN collidableObjects |-> filterActive(collidableObjects[g])]
  /\ lastOp' = [op |-> "cleanup", before |-> collidableObjects]
  /\ result' = NoCollision
  /\ calls' = << >>
  /\ UNCHANGED <<predictionSteps, predictionTime, entityVars>>
  /\ UNCHANGED runVars

\* the host ends an entity's life: its _isActive flag becomes false
deactivate(obj) ==
  /\ active[obj]
  /\ active' = [active EXCEPT ![obj] = FALSE]
  /\ lastOp' = [op |-> "deactivate", obj |-> obj]
  /\ result' = NoCollision
  /\ calls' = << >>
  /\ UNCHANGED <<managerVars, position, velocity>>
  /\ UNCHANGED runVars

-----------------------------------------------------------------------------
(* Queries *)

checkPredictiveCollisions(group1, group2) ==
  /\ LET objects1 == GetOrEmpty(group1)
         objects2 == GetOrEmpty(group2)
     IN  calls' = checkOuter(objects1, objects2, 1)
  /\ lastOp' = [op |-> "checkPredictiveCollisions",
                group1 |-> group1, group2 |-> group2]
  /\ result' = NoCollision
  /\ UNCHANGED <<managerVars, entityVars>>
  /\ UNCHANGED runVars

\* predictMovement with mesh.position.addInPlace in the place of add: the
\* entity is left at its last projected position
predictMovement_AddInPlace(obj, direction, speed, deltaTime, checkGroup) ==
  /\ LET checkObjects == GetOrEmpty(checkGroup)
         moveVector == normalize(direction) * (speed * deltaTime)
     IN  /\ result' = predictMovementLoop(obj, moveVector, checkObjects, 1)
         /\ position' = [position EXCEPT ![obj] = @ + moveVector]
  /\ lastOp' = [op |-> "predictMovement", obj |-> obj, direction |-> direction,
                speed |-> speed, deltaTime |-> deltaTime, group |-> checkGroup]
  /\ calls' = << >>
  /\ UNCHANGED <<managerVars, velocity, active>>
  /\ UNCHANGED runVars

predictMovement(obj, direction, speed, deltaTime, checkGroup) ==
  /\ LET checkObjects == GetOrEmpty(checkGroup)
         moveVector == normalize(direction) * (speed * deltaTime)
     IN  result' = predictMovementLoop(obj, moveVector, checkObjects, 1)
  /\ lastOp' = [op |-> "predictMovement", obj |-> obj, direction |-> direction,
                speed |-> speed, deltaTime |-> deltaTime, group |-> checkGroup]
  /\ calls' = << >>
  /\ UNCHANGED <<managerVars, entityVars>>
  /\ UNCHANGED runVars

\* raycastPrediction fetching its group with get-or-create: a group that is
\* not in the registry is entered with an empty list
raycastPrediction_CreatesGroup(obj, direction, maxDistance, checkGroup) ==
  /\ LET checkObjects == GetOrEmpty(checkGroup)
         acc == raycastLoop(obj, direction, maxDistance, checkObjects, 1,
                            [willCollide |-> FALSE,
                             closestDistance |-> maxDistance,
                             closestPoint |-> Undefined])
     IN  result' = [willCollide |-> acc.willCollide,
                    collisionPoint |-> acc.closestPoint,
                    distance |-> IF acc.willCollide
                                   THEN RatOfInt(acc.closestDistance)
                                   ELSE Undefined]
  /\ collidableObjects' =
       IF checkGroup \in DOMAIN collidableObjects THEN collidableObjects
       ELSE MapSet(collidableObjects, checkGroup, << >>)
  /\ lastOp' = [op |-> "raycastPrediction", obj |-> obj, direction |-> direction,
                maxDistance |-> maxDistance, group |-> checkGroup]
  /\ calls' = << >>
  /\ UNCHANGED <<predictionSteps, predictionTime, entityVars>>
  /\ UNCHANGED runVars

raycastPrediction(obj, direction, maxDistance, checkGroup) ==
  /\ LET checkObjects == GetOrEmpty(checkGroup)
         acc == raycastLoop(obj, direction, maxDistance, checkObjects, 1,
                            [willCollide |-> FALSE,
                             closestDistance |-> maxDistance,
                             closestPoint |-> Undefined])
     IN  result' = [willCollide |-> acc.willCollide,
                    collisionPoint |-> acc.closestPoint,
                    distance |-> IF acc.willCollide
                                   THEN RatOfInt(acc.closestDistance)
                                   ELSE Undefined]
  /\ lastOp' = [op |-> "raycastPrediction", obj |-> obj, direction |-> direction,
                maxDistance |-> maxDistance, group |-> checkGroup]
  /\ calls' = << >>
  /\ UNCHANGED <<managerVars, entityVars>>
  /\ UNCHANGED runVars

-----------------------------------------------------------------------------
(* The manager in a fixed scene *)

\* the entities whose life the host ends in this scene; e3 is scenery
Mortal == {"e1", "e2"}

\* the host asks the single entity queries for its moving entities
Subjects == Movable

\* arguments the host passes to the single entity queries
Directions == {2}
Speeds == {3}
DeltaTimes == {1}
RayDirections == {1}
MaxDistances == {11}

Next ==
  \/ \E g \in Groups, e \in Ents : register(g, e)
  \/ \E g \in Groups, e \in Ents : unregister(g, e)
  \/ cleanup
  \/ \E e \in Mortal : deactivate(e)
  \/ \E g1 \in Groups, g2 \in Groups : checkPredictiveCollisions(g1, g2)
  \/ \E e \in Subjects, d \in Directions, sp \in Speeds, dt \in DeltaTimes, g \in Groups :
       predictMovement(e, d, sp, dt, g)
  \/ \E e \in Subjects, d \in RayDirections, m \in MaxDistances, g \in Groups :
       raycastPrediction(e, d, m, g)

Spec == Init /\ [][Next]_vars

-----------------------------------------------------------------------------
(* The pairwise test over the scenes and settings of the host *)

\* setPredictionSettings with a guard against step counts below 1
setPredictionSettings_Clamped(steps, time) ==
  /\ predictionSteps' = Max(steps, 1)
  /\ predictionTime' = time
  /\ lastOp' = [op |-> "setPredictionSettings", steps |-> steps, time |-> time,
                stepsBefore |-> predictionSteps, timeBefore |-> predictionTime]
  /\ result' = NoCollision
  /\ calls' = << >>
  /\ UNCHANGED <<collidableObjects, entityVars>>
  /\ UNCHANGED runVars

\* lastOp keeps the settings the call replaced
setPredictionSettings(steps, time) ==
  /\ predictionSteps' = steps
  /\ predictionTime' = time
  /\ lastOp' = [op |-> "setPredictionSettings", steps |-> steps, time |-> time,
                stepsBefore |-> predictionSteps, timeBefore |-> predictionTime]
  /\ result' = NoCollision
  /\ calls' = << >>
  /\ UNCHANGED <<collidableObjects, entityVars>>
  /\ UNCHANGED runVars

\* the values the host gives to the settings; zero and negative values are
\* not rejected
StepValues == -1..MaxSteps
TimeValues == {-4, 0, 1, 4, 10}

\* where the host places the moving entities, and how fast they move
Positions == {0, 7, 10}
Velocities == {-1, 0, 1}

\* the host has placed the entities (e3 stands at 5) and registered e1 and
\* e3 as "A", e2 and e3 as "B"
InitScene ==
  /\ collidableObjects = [g \in Groups |->
                            IF g = "A" THEN <<"e1", "e3">> ELSE <<"e2", "e3">>]
  /\ predictionSteps = DefaultPredictionSteps
  /\ predictionTime = DefaultPredictionTime
  /\ \E p1 \in Positions, p2 \in Positions :
       position = [e \in Ents |-> IF e = "e1" THEN p1 ELSE IF e = "e2" THEN p2 ELSE 5]
  /\ \E v1 \in Velocities, v2 \in Velocities :
       velocity = [e \in Ents |-> IF e = "e1" THEN v1 ELSE IF e = "e2" THEN v2 ELSE 0]
  /\ active = [e \in Ents |-> TRUE]
  /\ lastOp = NoOp
  /\ result = NoCollision
  /\ calls = << >>
  /\ iter = Idle
  /\ frame = NoFrame

NextScene ==
  \/ \E st \in StepValues, t \in TimeValues : setPredictionSettings(st, t)
  \/ \E g1 \in Groups, g2 \in Groups : checkPredictiveCollisions(g1, g2)

SpecScene == InitScene /\ [][NextScene]_vars

-----------------------------------------------------------------------------
(* Ray casts over a line of colliders *)

\* e1 casts along the axis; the near faces of e2, e3 and e4 are 5, 10 and 2
\* away from it
RayScenePosition ==
  [e \in RayEnts |->
     IF e = "e1" THEN 0 ELSE IF e = "e2" THEN 8 ELSE IF e = "e3" THEN 11 ELSE 3]

RaySubjects == {"e1", "e3"}
RaySceneDirections == {1, -1}
RaySceneMaxDistances == {5, 20}

InitRay ==
  /\ collidableObjects = [g \in {} |-> << >>]
  /\ predictionSteps = DefaultPredictionSteps
  /\ predictionTime = DefaultPredictionTime
  /\ position = RayScenePosition
  /\ velocity = [e \in RayEnts |-> 0]
  /\ active = [e \in RayEnts |-> TRUE]
  /\ lastOp = NoOp
  /\ result = NoCollision
  /\ calls = << >>
  /\ iter = Idle
  /\ frame = NoFrame

NextRay ==
  \/ \E e \in RayEnts : register("A", e)
  \/ \E e \in RayEnts : deactivate(e)
  \/ \E e \in RaySubjects, d \in RaySceneDirections, m \in RaySceneMaxDistances :
       raycastPrediction(e, d, m, "A")

SpecRay == InitRay /\ [][NextRay]_vars

-----------------------------------------------------------------------------
(* Vocabulary of the properties *)

Queries == {"checkPredictiveCollisions", "predictMovement", "raycastPrediction"}

\* number of occurrences of e in the list objects
Count(objects, e) == Cardinality({i \in 1..Len(objects) : objects[i] = e})

\* sub is obtained from objects by deleting entries, the rest kept in order
IsSubsequence(sub, objects) ==
  \E f \in [1..Len(sub) -> 1..Len(objects)] :
    /\ \A i \in 1..Len(sub) : objects[f[i]] = sub[i]
    /\ \A i \in 1..Len(sub), k \in 1..Len(sub) : i < k => f[i] < f[k]

\* the sampled distance of a and b at step s is below the radius sum; the
\* inequality |pa + va*t - pb - vb*t| < R with t = s*T/N, multiplied by N
SampleWithinRadius(a, b, s) ==
  Abs((position[a] - position[b]) * predictionSteps
      + (getVelocity(a) - getVelocity(b)) * s * predictionTime)
    < (getCollisionRadius(a) + getCollisionRadius(b)) * predictionSteps

\* the pairwise predictive test says that a and b will collide
WillCollide(a, b) ==
  \/ intersectsMesh(a, b)
  \/ \E s \in 1..predictionSteps : SampleWithinRadius(a, b, s)

\* the position pairs of two lists, the first list varying slowest
PairSeq(objectsA, objectsB) ==
  [k \in 1..(Len(objectsA) * Len(objectsB)) |->
     << objectsA[((k - 1) \div Len(objectsB)) + 1],
        objectsB[((k - 1) % Len(objectsB)) + 1] >>]

ReportedPair(p) == active[p[1]] /\ active[p[2]] /\ WillCollide(p[1], p[2])

-----------------------------------------------------------------------------
(* Properties *)

\* C1: checkPredictiveCollisions invokes onCollision exactly once for each
\* position pair (a of groupA's list, b of groupB's list) whose members are
\* both active and for which the predictive test says willCollide, and for no
\* other pair; the invocations come in groupA-major list order, an entity
\* registered k times being visited k times.
C1_CallbackPerCollidingPair ==
  lastOp.op = "checkPredictiveCollisions" =>
    /\ [i \in 1..Len(calls) |-> <<calls[i].obj1, calls[i].obj2>>]
         = SelectSeq(PairSeq(GetOrEmpty(lastOp.group1), GetOrEmpty(lastOp.group2)),
                     ReportedPair)
    /\ \A i \in 1..Len(calls) : calls[i].result.willCollide

\* a check in which an entity registered twice was reported twice
C1_Witness ==
  /\ lastOp.op = "checkPredictiveCollisions"
  /\ Len(calls) = 2
  /\ calls[1].obj1 = calls[2].obj1
  /\ calls[1].obj2 = calls[2].obj2
  /\ calls[1].obj1 # calls[1].obj2
  /\ Count(GetOrEmpty(lastOp.group1), calls[1].obj1) = 2

\* a check that skipped a pair: more position pairs than invocations
C1_WitnessSkipped ==
  /\ lastOp.op = "checkPredictiveCollisions"
  /\ Len(calls) >= 1
  /\ Len(GetOrEmpty(lastOp.group1)) * Len(GetOrEmpty(lastOp.group2)) > Len(calls)

\* C3: after cleanup() every group's list is the subsequence of its previous
\* list made of the entities active at that moment, in the same order; the
\* set of group names is unchanged, no inactive entity is left in any group
\* and a further cleanup() would change nothing.
C3_CleanupKeepsActiveSubsequence ==
  lastOp.op = "cleanup" =>
    /\ DOMAIN collidableObjects = DOMAIN lastOp.before
    /\ \A g \in DOMAIN collidableObjects :
         /\ IsSubsequence(collidableObjects[g], lastOp.before[g])
         /\ \A e \in Ents :
              Count(collidableObjects[g], e)
                = IF active[e] THEN Count(lastOp.before[g], e) ELSE 0
         /\ filterActive(collidableObjects[g]) = collidableObjects[g]

\* a cleanup that removed an inactive entity from between two active entries
C3_Witness ==
  /\ lastOp.op = "cleanup"
  /\ \E g \in DOMAIN collidableObjects :
       /\ Len(lastOp.before[g]) = 3
       /\ Len(collidableObjects[g]) = 2
       /\ ~active[lastOp.before[g][2]]
       /\ collidableObjects[g][1] # collidableObjects[g][2]

\* C4: register(group, entity) appends the entity at the end of the named
\* group's list, creating the group only when the name is absent; a
\* duplicate registration adds a second occurrence and the lists of the other
\* groups are unchanged.
C4_RegisterAppends ==
  lastOp.op = "register" =>
    /\ DOMAIN collidableObjects = DOMAIN lastOp.before \cup {lastOp.group}
    /\ collidableObjects[lastOp.group] =
         (IF lastOp.group \in DOMAIN lastOp.before
            THEN lastOp.before[lastOp.group] ELSE << >>) \o <<lastOp.obj>>
    /\ \A g \in DOMAIN lastOp.before :
         g # lastOp.group => collidableObjects[g] = lastOp.before[g]

\* a duplicate registration into an existing group, another group existing
C4_Witness ==
  /\ lastOp.op = "register"
  /\ lastOp.group \in DOMAIN lastOp.before
  /\ Count(lastOp.before[lastOp.group], lastOp.obj) = 1
  /\ Count(collidableObjects[lastOp.group], lastOp.obj) = 2
  /\ \E g \in DOMAIN lastOp.before : g # lastOp.group /\ lastOp.before[g] # << >>

\* C5: unregister(group, entity) removes exactly the first occurrence of the
\* entity from the named group's list, keeping later duplicates and the order
\* of the other members; when the group does not exist or does not hold the
\* entity nothing changes and the group is not created; the other groups are
\* unchanged.
C5_UnregisterRemovesFirst ==
  lastOp.op = "unregister" =>
    LET g == lastOp.group
        e == lastOp.obj
        old == lastOp.before
    IN  /\ DOMAIN collidableObjects = DOMAIN old
        /\ \A h \in DOMAIN old : h # g => collidableObjects[h] = old[h]
        /\ g \in DOMAIN old =>
             IF Count(old[g], e) = 0
               THEN collidableObjects[g] = old[g]
               ELSE \E i \in 1..Len(old[g]) :
                      /\ old[g][i] = e
                      /\ \A k \in 1..(i - 1) : old[g][k] # e
                      /\ collidableObjects[g] =
                           SubSeq(old[g], 1, i - 1) \o SubSeq(old[g], i + 1, Len(old[g]))

\* an unregister that removed the first of two occurrences, a different
\* entity standing between them
C5_Witness ==
  /\ lastOp.op = "unregister"
  /\ lastOp.group \in DOMAIN lastOp.before
  /\ LET old == lastOp.before[lastOp.group] IN
       /\ Len(old) = 3
       /\ old[1] = lastOp.obj /\ old[3] = lastOp.obj /\ old[2] # lastOp.obj
       /\ collidableObjects[lastOp.group] = <<old[2], old[3]>>

\* an unregister from a group that does not exist
C5_WitnessAbsent ==
  /\ lastOp.op = "unregister"
  /\ lastOp.group \notin DOMAIN lastOp.before
  /\ DOMAIN lastOp.before # {}

-----------------------------------------------------------------------------
(* Properties of the single entity queries *)

\* the displacement vector of the last predictMovement call
LastMoveVector == normalize(lastOp.direction) * (lastOp.speed * lastOp.deltaTime)

\* c is within the radius sum of obj's projected position at step s of the
\* last predictMovement call: |p + m*s/N - pc| < R, multiplied by N
MoveWithinRadius(obj, c, s) ==
  Abs((position[obj] - position[c]) * predictionSteps + LastMoveVector * s)
    < (getCollisionRadius(obj) + getCollisionRadius(c)) * predictionSteps

\* c is a target the last single entity query can report: at some step of
\* the candidate move, or by a ray hit nearer than maxDistance
InReach(obj, c) ==
  IF lastOp.op = "predictMovement"
    THEN \E s \in 1..predictionSteps : MoveWithinRadius(obj, c, s)
    ELSE LET pick == rayIntersectsMesh(position[obj], lastOp.direction,
                                       lastOp.maxDistance, c)
         IN  pick.hit /\ pick.distance < lastOp.maxDistance

\* the members of the group the last single entity query scanned
LastMembers ==
  {GetOrEmpty(lastOp.group)[i] : i \in 1..Len(GetOrEmpty(lastOp.group))}

SingleQueries == {"predictMovement", "raycastPrediction"}

\* C2: in every query an entity whose active flag is false is never
\* considered: it is passed to onCollision as neither argument, and a
\* predictMovement or raycastPrediction result with willCollide = true has an
\* active subject and is caused by an active target, whether or not
\* unregister or cleanup was called.
C2_InactiveNeverConsidered ==
  /\ lastOp.op = "checkPredictiveCollisions" =>
       \A i \in 1..Len(calls) : active[calls[i].obj1] /\ active[calls[i].obj2]
  /\ (lastOp.op \in SingleQueries /\ result.willCollide) =>
       /\ active[lastOp.obj]
       /\ \E c \in LastMembers : active[c] /\ InReach(lastOp.obj, c)

\* C2, members only: an inactive member of a queried group is passed to
\* onCollision as neither argument and causes no willCollide = true result
C2_InactiveMemberNeverConsidered ==
  /\ lastOp.op = "checkPredictiveCollisions" =>
       \A i \in 1..Len(calls) : active[calls[i].obj1] /\ active[calls[i].obj2]
  /\ (lastOp.op \in SingleQueries /\ result.willCollide) =>
       \E c \in LastMembers : active[c] /\ InReach(lastOp.obj, c)

\* a query that passed over an inactive member in reach, still registered
C2_WitnessMember ==
  /\ lastOp.op \in SingleQueries
  /\ ~result.willCollide
  /\ \E c \in LastMembers : ~active[c] /\ c # lastOp.obj /\ InReach(lastOp.obj, c)

\* C8: predictMovement and raycastPrediction never report a collision caused
\* by the subject itself: when the checked group contains the subject and
\* every other member is inactive or out of reach, the result is
\* willCollide = false.
C8_NoSelfCollision ==
  (/\ lastOp.op \in SingleQueries
   /\ lastOp.obj \in LastMembers
   /\ \A c \in LastMembers \ {lastOp.obj} : ~active[c] \/ ~InReach(lastOp.obj, c))
    => result = NoCollision

\* a predictMovement of an active subject registered twice in the checked
\* group, within the radius threshold of itself, the other member inactive
C8_Witness ==
  /\ lastOp.op = "predictMovement"
  /\ active[lastOp.obj]
  /\ Count(GetOrEmpty(lastOp.group), lastOp.obj) = 2
  /\ \E c \in LastMembers : c # lastOp.obj /\ ~active[c] /\ InReach(lastOp.obj, c)
  /\ InReach(lastOp.obj, lastOp.obj)
  /\ result = NoCollision

\* a raycastPrediction of a subject that is a member of the checked group,
\* the other member out of reach
C8_WitnessRay ==
  /\ lastOp.op = "raycastPrediction"
  /\ active[lastOp.obj]
  /\ lastOp.obj \in LastMembers
  /\ \E c \in LastMembers : c # lastOp.obj /\ active[c] /\ ~InReach(lastOp.obj, c)
  /\ rayIntersectsMesh(position[lastOp.obj], lastOp.direction,
                       lastOp.maxDistance, lastOp.obj).hit
  /\ result = NoCollision

-----------------------------------------------------------------------------
(* Properties of the pairwise predictive test *)

\* the invocations of the last check for the pair (a, b)
CallsFor(a, b) == {i \in 1..Len(calls) : calls[i].obj1 = a /\ calls[i].obj2 = b}

\* the position pairs the last check visited with both members active
VisitedPairs ==
  {p \in {PairSeq(GetOrEmpty(lastOp.group1), GetOrEmpty(lastOp.group2))[k] :
            k \in 1..(Len(GetOrEmpty(lastOp.group1)) * Len(GetOrEmpty(lastOp.group2)))} :
     active[p[1]] /\ active[p[2]]}

\* C6: for two entities whose current geometries intersect the pairwise test
\* returns willCollide = true with distance 0 and a's current position as
\* contact point, whatever the velocities, predictionSteps and predictionTime
\* are (zero and negative values included), and it evaluates no sample.
C6_OverlapShortcut ==
  lastOp.op = "checkPredictiveCollisions" =>
    \A p \in VisitedPairs :
      intersectsMesh(p[1], p[2]) =>
        /\ CallsFor(p[1], p[2]) # {}
        /\ \A i \in CallsFor(p[1], p[2]) :
             /\ calls[i].result = [willCollide |-> TRUE,
                                   collisionPoint |-> <<position[p[1]], 1>>,
                                   distance |-> <<0, 1>>]
             /\ calls[i].samples = 0

\* an overlapping pair of moving entities reported with no step configured
C6_Witness ==
  /\ lastOp.op = "checkPredictiveCollisions"
  /\ predictionSteps <= 0
  /\ predictionTime < 0
  /\ \E p \in VisitedPairs :
       /\ intersectsMesh(p[1], p[2])
       /\ p[1] # p[2]
       /\ getVelocity(p[1]) # 0 /\ getVelocity(p[2]) # getVelocity(p[1])
       /\ position[p[1]] # 0
       /\ CallsFor(p[1], p[2]) # {}

\* an overlapping pair that the samples alone would place at another point:
\* the first sample is within the radius sum as well
C6_WitnessSampleAlsoHits ==
  /\ lastOp.op = "checkPredictiveCollisions"
  /\ predictionSteps >= 1
  /\ \E p \in VisitedPairs :
       /\ intersectsMesh(p[1], p[2])
       /\ getVelocity(p[1]) # 0 /\ predictionTime # 0
       /\ SampleWithinRadius(p[1], p[2], 1)
       /\ CallsFor(p[1], p[2]) # {}

\* the steps of the last check at which a and b are within the radius sum
HitSteps(a, b) == {s \in 1..predictionSteps : SampleWithinRadius(a, b, s)}

FirstHitStep(a, b) == CHOOSE s \in HitSteps(a, b) : \A u \in HitSteps(a, b) : s <= u

\* the scenario of the specification: positions 0 and 1, velocities +1 and -1,
\* radii 0.3, 3 steps over a horizon of 1.0
ExampleScenario ==
  /\ position["e1"] = 0 /\ position["e2"] = 10
  /\ velocity["e1"] = 1 /\ velocity["e2"] = -1
  /\ getCollisionRadius("e1") = 3 /\ getCollisionRadius("e2") = 3
  /\ predictionSteps = 3 /\ predictionTime = 10

\* C7: when the geometries do not intersect, the pairwise test evaluates the
\* steps s = 1..predictionSteps in increasing order at t = (s/predictionSteps)
\* * predictionTime with linearly projected positions and returns willCollide
\* = true for the smallest s whose distance is strictly below the radius sum,
\* with that step's distance and a's projected position; a distance equal to
\* the radius sum does not trigger; if no step triggers the result is
\* willCollide = false.  In the scenario of the specification the hit is at
\* step 1 with a distance between 0.333 and 0.334.
C7_FirstHitWins ==
  lastOp.op = "checkPredictiveCollisions" =>
    \A p \in VisitedPairs :
      ~intersectsMesh(p[1], p[2]) =>
        LET a == p[1]
            b == p[2]
        IN  IF HitSteps(a, b) = {}
              THEN CallsFor(a, b) = {}
              ELSE LET s == FirstHitStep(a, b)
                       t == s * predictionTime
                   IN  /\ CallsFor(a, b) # {}
                       /\ \A i \in CallsFor(a, b) :
                            /\ calls[i].samples = s
                            /\ calls[i].result.willCollide
                            /\ calls[i].result.distance =
                                 Rat(Abs((position[a] - position[b]) * predictionSteps
                                         + (getVelocity(a) - getVelocity(b)) * t),
                                     predictionSteps)
                            /\ calls[i].result.collisionPoint =
                                 Rat(position[a] * predictionSteps + getVelocity(a) * t,
                                     predictionSteps)
                            /\ (ExampleScenario /\ a = "e1" /\ b = "e2") =>
                                 /\ s = 1
                                 /\ 3330 * calls[i].result.distance[2]
                                      <= 1000 * calls[i].result.distance[1]
                                 /\ 1000 * calls[i].result.distance[1]
                                      <= 3340 * calls[i].result.distance[2]

\* a pair exactly at the radius sum at step 1 and reported at step 2
C7_Witness ==
  /\ lastOp.op = "checkPredictiveCollisions"
  /\ \E p \in VisitedPairs :
       /\ ~intersectsMesh(p[1], p[2])
       /\ Abs((position[p[1]] - position[p[2]]) * predictionSteps
              + (getVelocity(p[1]) - getVelocity(p[2])) * predictionTime)
            = (getCollisionRadius(p[1]) + getCollisionRadius(p[2])) * predictionSteps
       /\ \E i \in CallsFor(p[1], p[2]) : calls[i].samples = 2

\* the scenario of the specification, checked
C7_WitnessExample ==
  /\ lastOp.op = "checkPredictiveCollisions"
  /\ ExampleScenario
  /\ CallsFor("e1", "e2") # {}

\* a pair that no step brings within the radius sum
C7_WitnessNoHit ==
  /\ lastOp.op = "checkPredictiveCollisions"
  /\ predictionSteps = MaxSteps
  /\ \E p \in VisitedPairs :
       /\ ~intersectsMesh(p[1], p[2])
       /\ getVelocity(p[1]) # getVelocity(p[2])
       /\ HitSteps(p[1], p[2]) = {}
       /\ CallsFor(p[1], p[2]) = {}

-----------------------------------------------------------------------------
(* Properties of raycastPrediction *)

\* the distances of the ray hits the last raycastPrediction may report: those
\* of the other active members of the group, nearer than maxDistance
ReportableHits ==
  {rayIntersectsMesh(position[lastOp.obj], lastOp.direction,
                     lastOp.maxDistance, c).distance :
     c \in {m \in LastMembers : active[m] /\ m # lastOp.obj
                                 /\ InReach(lastOp.obj, m)}}

\* the members of the group whose ray hit is at maxDistance exactly
HitsAtMaxDistance ==
  {c \in LastMembers :
     LET pick == rayIntersectsMesh(position[lastOp.obj], lastOp.direction,
                                   lastOp.maxDistance, c)
     IN  active[c] /\ c # lastOp.obj /\ pick.hit /\ pick.distance = lastOp.maxDistance}

\* C9: raycastPrediction returns the minimum hit distance over the other
\* active members of checkGroup whose hit distance is strictly less than
\* maxDistance, whatever the members' order (hits at 5, 10, 2 with
\* maxDistance 20 give 2); a hit at maxDistance or beyond is never reported;
\* with no such hit the result is willCollide = false with neither distance
\* nor contact point.
C9_RaycastClosestHit ==
  lastOp.op = "raycastPrediction" =>
    IF ReportableHits = {}
      THEN result = NoCollision
      ELSE LET d == CHOOSE x \in ReportableHits : \A y \in ReportableHits : x <= y
           IN  /\ result.willCollide
               /\ result.distance = <<d, 1>>
               /\ result.collisionPoint =
                    <<position[lastOp.obj] + lastOp.direction * d, 1>>
               /\ d < lastOp.maxDistance

\* the colliders registered in the order of the hits 5, 10, 2, cast with
\* maxDistance 20: the hit at 2 is returned
C9_Witness ==
  /\ lastOp.op = "raycastPrediction"
  /\ lastOp.maxDistance = 20
  /\ Len(GetOrEmpty(lastOp.group)) = 3
  /\ [i \in 1..3 |->
        rayIntersectsMesh(position[lastOp.obj], lastOp.direction, 20,
                          GetOrEmpty(lastOp.group)[i]).distance] = <<5, 10, 2>>
  /\ \A c \in LastMembers : active[c] /\ c # lastOp.obj
  /\ result.distance = <<2, 1>>

\* a cast whose only hit lies at maxDistance exactly: nothing is reported
C9_WitnessAtMaxDistance ==
  /\ lastOp.op = "raycastPrediction"
  /\ HitsAtMaxDistance # {}
  /\ result = NoCollision

-----------------------------------------------------------------------------
(* checkPredictiveCollisions with a callback that calls back into the      *)
(* manager.  The two for...of loops iterate the arrays the registry held   *)
(* when the call began: an iterator reads the array's current length and   *)
(* its current element at each turn, so that a push or a splice made by    *)
(* the callback is seen by the running loops, while the arrays cleanup     *)
(* stores in their place are not.                                          *)

\* what the host's callback does with the pair it is handed
Callbacks ==
  {"record", "deactivateObj1", "deactivateObj2", "unregisterObj1",
   "unregisterObj2", "cleanup", "destroyObj2", "registerObj2"}

\* the registry after register(group, object)
registered(map, group, object) ==
  LET withGroup == IF group \in DOMAIN map THEN map ELSE MapSet(map, group, << >>)
  IN  [withGroup EXCEPT ![group] = Append(withGroup[group], object)]

\* the registry after unregister(group, object)
unregistered(map, group, object) ==
  IF group \in DOMAIN map
    THEN LET index == indexOf(map[group], object)
         IN  IF index > 0 THEN [map EXCEPT ![group] = splice(map[group], index)]
             ELSE map
    ELSE map

\* the registry after cleanup(), the active flags being act
cleaned(map, act) ==
  [g \in DOMAIN map |-> SelectSeq(map[g], LAMBDA e : act[e])]

\* the array the outer loop iterates, as it is now
iterObjects1 ==
  IF iter.live1 THEN collidableObjects[iter.group1] ELSE iter.objects1

\* the array the inner loop iterates, as it is now
iterObjects2 ==
  IF iter.live2 THEN collidableObjects[iter.group2] ELSE iter.objects2

\* the elements of a sequence
Range(seq) == {seq[k] : k \in 1..Len(seq)}

\* the state the callback cb leaves when invoked with (obj1, obj2): the
\* registry, the active flags, and whether the registry's arrays were replaced
callbackEffect(cb, obj1, obj2) ==
  LET dead2 == [active EXCEPT ![obj2] = FALSE] IN
  CASE cb = "deactivateObj1" ->
         [registry |-> collidableObjects,
          active |-> [active EXCEPT ![obj1] = FALSE], replaced |-> FALSE]
    [] cb = "deactivateObj2" ->
         [registry |-> collidableObjects, active |-> dead2, replaced |-> FALSE]
    [] cb = "unregisterObj1" ->
         [registry |-> unregistered(collidableObjects, iter.group1, obj1),
          active |-> active, replaced |-> FALSE]
    [] cb = "unregisterObj2" ->
         [registry |-> unregistered(collidableObjects, iter.group2, obj2),
          active |-> active, replaced |-> FALSE]
    [] cb = "cleanup" ->
         [registry |-> cleaned(collidableObjects, active),
          active |-> active, replaced |-> TRUE]
    [] cb = "destroyObj2" ->
         [registry |-> cleaned(collidableObjects, dead2),
          active |-> dead2, replaced |-> TRUE]
    [] cb = "registerObj2" ->
         [registry |-> IF Registered < MaxRegistered
                         THEN registered(collidableObjects, iter.group2, obj2)
                         ELSE collidableObjects,
          active |-> active, replaced |-> FALSE]
    [] OTHER ->
         [registry |-> collidableObjects, active |-> active, replaced |-> FALSE]

\* the call begins: objects1 and objects2 are fetched, the outer loop starts
checkBegin(group1, group2, cb) ==
  /\ iter.phase = "idle"
  /\ iter' = [phase |-> "outer", group1 |-> group1, group2 |-> group2,
              cb |-> cb,
              live1 |-> group1 \in DOMAIN collidableObjects,
              live2 |-> group2 \in DOMAIN collidableObjects,
              objects1 |-> << >>, objects2 |-> << >>,
              i |-> 1, j |-> 1, obj1 |-> "", visited |-> << >>]
  /\ lastOp' = [op |-> "checkPredictiveCollisions",
                group1 |-> group1, group2 |-> group2, cb |-> cb,
                before |-> collidableObjects, activeBefore |-> active]
  /\ result' = NoCollision
  /\ calls' = << >>
  /\ UNCHANGED <<managerVars, entityVars, frame>>

\* one turn of the outer loop: the end test, the fetch of obj1 and its
\* isActive() test
checkOuterStep ==
  /\ iter.phase = "outer"
  /\ LET objects1 == iterObjects1 IN
       iter' = IF iter.i > Len(objects1)
                 THEN [iter EXCEPT !.phase = "done"]
                 ELSE [iter EXCEPT !.i = @ + 1, !.obj1 = objects1[iter.i],
                                   !.j = 1,
                                   !.phase = IF isActive(objects1[iter.i])
                                               THEN "inner" ELSE "outer"]
  /\ UNCHANGED <<managerVars, entityVars, lastOp, result, calls, frame>>

\* one turn of the inner loop: the end test, the fetch of obj2, its
\* isActive() test, the pairwise test and the callback, run to its return
checkInnerStep ==
  /\ iter.phase = "inner"
  /\ LET objects2 == iterObjects2 IN
       IF iter.j > Len(objects2)
         THEN /\ iter' = [iter EXCEPT !.phase = "outer"]
              /\ UNCHANGED <<collidableObjects, active, calls>>
         ELSE LET obj1 == iter.obj1
                  obj2 == objects2[iter.j]
                  r == predictCollision(obj1, obj2)
                  invoked == isActive(obj2) /\ r.res.willCollide
                  after == callbackEffect(IF invoked THEN iter.cb ELSE "record",
                                          obj1, obj2)
                  visit == [obj1 |-> obj1, obj2 |-> obj2, invoked |-> invoked,
                            active1 |-> isActive(obj1),
                            active2 |-> isActive(obj2),
                            in1 |-> obj1 \in Range(GetOrEmpty(iter.group1)),
                            in2 |-> obj2 \in Range(GetOrEmpty(iter.group2))]
              IN  /\ iter' =
                       [iter EXCEPT
                          !.j = @ + 1,
                          !.visited = IF isActive(obj2) THEN Append(@, visit) ELSE @,
                          !.live1 = @ /\ ~after.replaced,
                          !.live2 = @ /\ ~after.replaced,
                          !.objects1 = IF iter.live1 /\ after.replaced
                                         THEN collidableObjects[iter.group1] ELSE @,
                          !.objects2 = IF iter.live2 /\ after.replaced
                                         THEN collidableObjects[iter.group2] ELSE @]
                  /\ collidableObjects' = after.registry
                  /\ active' = after.active
                  /\ calls' = IF invoked THEN calls \o onCollision(obj1, obj2, r)
                              ELSE calls
  /\ UNCHANGED <<predictionSteps, predictionTime, position, velocity,
                 lastOp, result, frame>>

\* the host sets the scene up, then runs one check whose callback is one of
\* Callbacks
NextReentrant ==
  \/ \E g \in Groups, e \in Ents : iter.phase = "idle" /\ register(g, e)
  \/ \E e \in Mortal : iter.phase = "idle" /\ deactivate(e)
  \/ \E g1 \in Groups, g2 \in Groups, cb \in Callbacks : checkBegin(g1, g2, cb)
  \/ checkOuterStep
  \/ checkInnerStep

SpecReentrant == Init /\ [][NextReentrant]_vars

\* the call has returned
Returned == iter.phase = "done"

-----------------------------------------------------------------------------
(* Claims about calls whose callback calls back into the manager *)

\* the number of entries the group held when the call began
LenBefore(group) ==
  IF group \in DOMAIN lastOp.before THEN Len(lastOp.before[group]) ELSE 0

\* C11: every call terminates after a bounded number of steps, for every
\* finite registry and every callback that itself returns, a callback that
\* calls register, unregister or cleanup included: a call of
\* checkPredictiveCollisions evaluates at most |group1| * |group2| pairs, the
\* sizes being those of the registry it was called on.
C11_TerminatesInBoundedSteps ==
  iter.phase # "idle" =>
    Len(iter.visited) <= LenBefore(iter.group1) * LenBefore(iter.group2)

-----------------------------------------------------------------------------
(* The queries under settings the host changes between them *)

\* the prediction times the host sets; 20 is a look-ahead of two seconds
SettingTimes == {-4, 0, 1, 20}

\* where e2 stands, and the velocities of e1 and e2
FarPositions == {7, 20}
ForwardVelocities == {0, 1}
BackwardVelocities == {-1, 0}

\* the frame times of the host's movement queries
FrameTimes == {1, 3, 4}

\* e1 stands at 0 and is registered as "A"; e3 (at 12) and e2 are registered,
\* in that order, as "B"
InitSettings ==
  /\ collidableObjects = [g \in Groups |->
                            IF g = "A" THEN <<"e1">> ELSE <<"e3", "e2">>]
  /\ predictionSteps = DefaultPredictionSteps
  /\ predictionTime = DefaultPredictionTime
  /\ \E p2 \in FarPositions :
       position = [e \in Ents |-> IF e = "e1" THEN 0 ELSE IF e = "e2" THEN p2 ELSE 12]
  /\ \E v1 \in ForwardVelocities, v2 \in BackwardVelocities :
       velocity = [e \in Ents |-> IF e = "e1" THEN v1 ELSE IF e = "e2" THEN v2 ELSE 0]
  /\ active = [e \in Ents |-> TRUE]
  /\ lastOp = NoOp
  /\ result = NoCollision
  /\ calls = << >>
  /\ iter = Idle
  /\ frame = NoFrame

NextSettings ==
  \/ \E st \in StepValues, t \in SettingTimes : setPredictionSettings(st, t)
  \/ \E g1 \in Groups, g2 \in Groups : checkPredictiveCollisions(g1, g2)
  \/ \E d \in Directions, sp \in Speeds, dt \in FrameTimes, g \in Groups :
       predictMovement("e1", d, sp, dt, g)

SpecSettings == InitSettings /\ [][NextSettings]_vars

\* setPredictionSettings has just replaced stepsBefore by a larger step count
\* and has left the prediction time as it was
StepsRaised ==
  /\ lastOp.op = "setPredictionSettings"
  /\ lastOp.timeBefore = predictionTime
  /\ predictionSteps > lastOp.stepsBefore

\* the pairwise test of a and b with n steps and the current prediction
\* time: they overlap, or one of the sampled distances |pa + va*t - pb - vb*t|
\* with t = s*T/n (s = 1..n) is below the radius sum
WillCollideWith(a, b, n) ==
  \/ intersectsMesh(a, b)
  \/ \E s \in 1..n :
       Abs((position[a] - position[b]) * n
           + (getVelocity(a) - getVelocity(b)) * s * predictionTime)
         < (getCollisionRadius(a) + getCollisionRadius(b)) * n

-----------------------------------------------------------------------------
(* Queries of groups that hold nothing *)

\* the host registers and unregisters entities, all of them active, and
\* queries the groups
NextGroups ==
  \/ \E g \in Groups, e \in Ents : register(g, e)
  \/ \E g \in Groups, e \in Ents : unregister(g, e)
  \/ \E g1 \in Groups, g2 \in Groups : checkPredictiveCollisions(g1, g2)
  \/ \E e \in Subjects, d \in Directions, sp \in Speeds, dt \in DeltaTimes, g \in Groups :
       predictMovement(e, d, sp, dt, g)
  \/ \E e \in Subjects, d \in RayDirections, m \in MaxDistances, g \in Groups :
       raycastPrediction(e, d, m, g)

SpecGroups == Init /\ [][NextGroups]_vars

\* C13: a query of a group that was never registered, or of a group that is
\* empty, is not a failure: checkPredictiveCollisions makes no callback,
\* predictMovement and raycastPrediction return willCollide = false, and the
\* query leaves the registry as it was (the group is not created).
C13_UnknownOrEmptyGroup ==
  [][/\ (/\ lastOp'.op = "checkPredictiveCollisions"
         /\ \/ GetOrEmpty(lastOp'.group1) = << >>
            \/ GetOrEmpty(lastOp'.group2) = << >>)
          => (calls' = << >> /\ collidableObjects' = collidableObjects)
     /\ (lastOp'.op \in SingleQueries /\ GetOrEmpty(lastOp'.group) = << >>)
          => (result' = NoCollision /\ collidableObjects' = collidableObjects)
    ]_vars

\* a ray cast of a group that was never registered, the other group holding
\* an entity in the ray's path
C13_Witness ==
  /\ lastOp.op = "raycastPrediction"
  /\ lastOp.group \notin DOMAIN collidableObjects
  /\ \E g \in DOMAIN collidableObjects :
       \E k \in 1..Len(collidableObjects[g]) :
       rayIntersectsMesh(position[lastOp.obj], lastOp.direction,
                         lastOp.maxDistance, collidableObjects[g][k]).hit
  /\ result = NoCollision

\* a check of a registered but empty group against a group that holds two
\* entities
C13_WitnessEmpty ==
  /\ lastOp.op = "checkPredictiveCollisions"
  /\ lastOp.group1 \in DOMAIN collidableObjects
  /\ collidableObjects[lastOp.group1] = << >>
  /\ Len(GetOrEmpty(lastOp.group2)) = 2
  /\ calls = << >>

-----------------------------------------------------------------------------
(* The settings *)

\* where obj1 is projected to at the given step under the current settings
ProjectedAt(obj1, step) ==
  RatAdd(RatOfInt(position[obj1]),
         RatMulInt(Rat(step * predictionTime, predictionSteps), getVelocity(obj1)))

\* C14: every query uses the predictionSteps and predictionTime most recently
\* set: the manager starts with the defaults 3 and 0.1 s, only
\* setPredictionSettings changes the settings, it stores its arguments as
\* given (zero and negative values included) and leaves the registry
\* unchanged, and a collision the next check reports from a sample was found
\* at a step of the current step count and at the point the current
\* prediction time gives for that step.
C14_SettingsTakeEffect ==
  /\ predictionSteps = DefaultPredictionSteps
  /\ predictionTime = DefaultPredictionTime
  /\ [][/\ lastOp'.op = "setPredictionSettings"
             => /\ predictionSteps' = lastOp'.steps
                /\ predictionTime' = lastOp'.time
                /\ collidableObjects' = collidableObjects
        /\ lastOp'.op # "setPredictionSettings"
             => UNCHANGED <<predictionSteps, predictionTime>>
        /\ lastOp'.op = "checkPredictiveCollisions"
             => \A k \in 1..Len(calls') :
                  calls'[k].samples >= 1 =>
                    /\ calls'[k].samples <= predictionSteps
                    /\ calls'[k].result.collisionPoint
                         = ProjectedAt(calls'[k].obj1, calls'[k].samples)
       ]_vars

\* a check that follows a change of both settings and reports a collision
\* found at the second of two samples of a two second look-ahead
C14_Witness ==
  /\ lastOp.op = "checkPredictiveCollisions"
  /\ predictionSteps = 2
  /\ predictionTime = 20
  /\ \E k \in 1..Len(calls) : calls[k].samples = 2

\* the settings hold a negative step count and a negative time
C14_WitnessNegative ==
  /\ lastOp.op = "setPredictionSettings"
  /\ predictionSteps = -1
  /\ predictionTime = -4

-----------------------------------------------------------------------------
(* The sampling of predictMovement *)

\* the (step, list index) pairs of the last predictMovement call at which an
\* active member other than the subject is strictly within the radius sum
MoveHits ==
  LET members == GetOrEmpty(lastOp.group) IN
  {h \in (1..predictionSteps) \X (1..Len(members)) :
     /\ isActive(members[h[2]])
     /\ members[h[2]] # lastOp.obj
     /\ MoveWithinRadius(lastOp.obj, members[h[2]], h[1])}

\* the first of them, steps before list indices
FirstMoveHit ==
  CHOOSE h \in MoveHits :
    \A g \in MoveHits : h[1] < g[1] \/ (h[1] = g[1] /\ h[2] <= g[2])

\* the subject's position moved by the fraction s / predictionSteps of the
\* displacement normalize(direction) * speed * deltaTime
MovedBy(s) ==
  RatAdd(RatOfInt(position[lastOp.obj]), Rat(LastMoveVector * s, predictionSteps))

\* C15: predictMovement samples the fractions s / predictionSteps
\* (s = 1..predictionSteps) of the displacement normalize(direction) * speed *
\* deltaTime, whatever predictionTime is; it scans the steps in increasing
\* order and within a step the members in list order, and returns the first
\* (step, member) whose distance from the projected position is strictly
\* below the radius sum, otherwise willCollide = false.
C15_MovementSampling ==
  lastOp.op = "predictMovement" =>
    IF MoveHits = {} THEN result = NoCollision
    ELSE LET point == MovedBy(FirstMoveHit[1])
             target == GetOrEmpty(lastOp.group)[FirstMoveHit[2]]
         IN  result = [willCollide |-> TRUE,
                       collisionPoint |-> point,
                       distance |-> Distance(point, RatOfInt(position[target]))]

\* the first member of the list is reached at a later step than the second:
\* the second is returned, under a prediction time other than 1
C15_Witness ==
  /\ lastOp.op = "predictMovement"
  /\ predictionTime = 20
  /\ MoveHits # {}
  /\ FirstMoveHit[2] = 2
  /\ \E h \in MoveHits : h[2] = 1

\* two members are within the radius sum at the first step that has a hit:
\* the one returned is the first in the list, not the nearer one
C15_WitnessListOrder ==
  /\ lastOp.op = "predictMovement"
  /\ MoveHits # {}
  /\ FirstMoveHit[2] = 1
  /\ \E h \in MoveHits :
       /\ h[1] = FirstMoveHit[1]
       /\ h[2] = 2
       /\ RatLess(Distance(MovedBy(h[1]),
                           RatOfInt(position[GetOrEmpty(lastOp.group)[2]])),
                  result.distance)

-----------------------------------------------------------------------------
(* Entities that are deactivated or removed while a check is running *)

\* C16: within one checkPredictiveCollisions call, once an entity's active
\* flag has become false (the callback for a pair deactivates one of its
\* two entities), onCollision is not invoked for any later pair of that call
\* that contains the entity: both entities of every invocation are active
\* when it is made.
C16_NoCallbackAfterDeactivation ==
  iter.phase # "idle" =>
    \A k \in 1..Len(iter.visited) :
      iter.visited[k].invoked =>
        (iter.visited[k].active1 /\ iter.visited[k].active2)

\* the callbacks that remove entries from the registry
RemovingCallbacks == {"unregisterObj1", "unregisterObj2", "cleanup", "destroyObj2"}

\* the number of times the running call has evaluated the pair (a, b)
Evaluations(a, b) ==
  Cardinality({k \in 1..Len(iter.visited) :
                 iter.visited[k].obj1 = a /\ iter.visited[k].obj2 = b})

\* C17: if the callback unregisters an entity from group1 or group2, or calls
\* cleanup, while checkPredictiveCollisions is iterating, every pair of
\* entities that are still registered and active is evaluated exactly once
\* in that call (once for each pair of their entries), and no entity is
\* evaluated after it was removed from its group.
C17_RemainingPairsOnce ==
  (Returned /\ iter.cb \in RemovingCallbacks) =>
    LET objects1 == GetOrEmpty(iter.group1)
        objects2 == GetOrEmpty(iter.group2)
    IN  /\ \A a \in Range(objects1), b \in Range(objects2) :
             (isActive(a) /\ isActive(b)) =>
               Evaluations(a, b) = Count(objects1, a) * Count(objects2, b)
        /\ \A k \in 1..Len(iter.visited) :
             iter.visited[k].in1 /\ iter.visited[k].in2

-----------------------------------------------------------------------------
(* Step counts below one *)

\* C18: with predictionSteps <= 0 no sample is evaluated: the pairwise test
\* evaluates no step and reports exactly the pairs that overlap now,
\* predictMovement returns willCollide = false, and every pair
\* checkPredictiveCollisions hands to the callback was caught by the
\* immediate-overlap shortcut.
C18_NoSampleWithoutSteps ==
  predictionSteps <= 0 =>
    /\ \A p \in Ents \X Ents :
         LET r == predictCollision(p[1], p[2])
         IN  /\ r.samples = 0
             /\ r.res.willCollide <=> intersectsMesh(p[1], p[2])
    /\ lastOp.op = "predictMovement" => result = NoCollision
    /\ lastOp.op = "checkPredictiveCollisions" =>
         \A k \in 1..Len(calls) :
           /\ calls[k].samples = 0
           /\ intersectsMesh(calls[k].obj1, calls[k].obj2)

\* a check of group "B" against itself with no steps: the two self pairs are
\* reported, the pair (e3, e2), which three steps would report, is not
C18_Witness ==
  /\ predictionSteps <= 0
  /\ lastOp.op = "checkPredictiveCollisions"
  /\ lastOp.group1 = "B"
  /\ lastOp.group2 = "B"
  /\ Len(calls) = 2
  /\ ~intersectsMesh("e3", "e2")
  /\ WillCollideWith("e3", "e2", DefaultPredictionSteps)

\* a candidate move of e1 that ends on e3 is declared free with a negative
\* step count
C18_WitnessMovement ==
  /\ predictionSteps < 0
  /\ lastOp.op = "predictMovement"
  /\ lastOp.group = "B"
  /\ position[lastOp.obj] + LastMoveVector = position["e3"]
  /\ result = NoCollision

-----------------------------------------------------------------------------
(* The host's render loop (BabylonScene.tsx) and the player it moves        *)
(* (Player.ts).  Times are whole milliseconds, the player's z coordinate is *)
(* counted in thousandths of a world unit, so that speed * deltaTime, with  *)
(* deltaTime in seconds, is speed times the milliseconds.  The keys held    *)
(* are those of the z axis and the sprint key.                              *)

\* new Player(sphere, scene, 1)
PlayerSpeed == 1

\* the keys the user presses and releases
Keys == {"w", "s", "shift"}

\* milliseconds between two before-render callbacks (60 and 30 frames a second)
FrameGaps == {16, 33}

\* milliseconds by which Date.now() advances between two consecutive reads
ClockTicks == {0, 1}

\* useEffect: the player is created and the two observers are added
install ==
  /\ ~frame.installed
  /\ frame' = [installed |-> TRUE, now |-> 0, frames |-> 0,
               inputState |-> [forward |-> FALSE, backward |-> FALSE,
                               sprint |-> FALSE],
               z |-> 0, deltaTime |-> 0, elapsed |-> 0, moved |-> 0]
  /\ lastOp' = [op |-> "install"]
  /\ UNCHANGED <<managerVars, entityVars, result, calls, iter>>

\* the keyboard observer: player.updateInput(key, isPressed)
updateInput(key, isPressed) ==
  /\ frame.installed
  /\ frame' = [frame EXCEPT
                 !.inputState =
                   CASE key = "w" -> [@ EXCEPT !.forward = isPressed]
                     [] key = "s" -> [@ EXCEPT !.backward = isPressed]
                     [] key = "shift" -> [@ EXCEPT !.sprint = isPressed]
                     [] OTHER -> @]
  /\ lastOp' = [op |-> "updateInput", key |-> key, isPressed |-> isPressed]
  /\ UNCHANGED <<managerVars, entityVars, result, calls, iter>>

\* the displacement of Player.update(deltaTime) along z
playerUpdate(inputState, deltaTime) ==
  LET currentSpeed == IF inputState.sprint THEN PlayerSpeed * 2 ELSE PlayerSpeed
      direction == (IF inputState.forward THEN 1 ELSE 0)
                     - (IF inputState.backward THEN 1 ELSE 0)
  IN  IF Abs(direction) > 0 THEN normalize(direction) * (currentSpeed * deltaTime)
      ELSE 0

\* the before-render observer, called gap milliseconds after the previous
\* callback; Date.now() advances by tick between its two reads
beforeRender(gap, tick) ==
  /\ frame.installed
  /\ frame.frames < MaxFrames
  /\ LET lastTime == frame.now + gap
         currentTime == lastTime + tick
         deltaTime == currentTime - lastTime
         moved == playerUpdate(frame.inputState, deltaTime)
     IN  frame' = [frame EXCEPT !.now = currentTime, !.frames = @ + 1,
                                !.z = @ + moved, !.deltaTime = deltaTime,
                                !.elapsed = gap, !.moved = moved]
  /\ lastOp' = [op |-> "beforeRender"]
  /\ UNCHANGED <<managerVars, entityVars, result, calls, iter>>

NextFrame ==
  \/ install
  \/ \E key \in Keys, isPressed \in BOOLEAN : updateInput(key, isPressed)
  \/ \E gap \in FrameGaps, tick \in ClockTicks : beforeRender(gap, tick)

SpecFrame == Init /\ [][NextFrame]_vars

\* C19: in the host frame loop the deltaTime passed to player.update on each
\* before-render callback equals the time elapsed since the previous
\* before-render callback, so that a player with a direction key held moves
\* by its speed times the elapsed time per frame.
C19_DeltaTimeIsElapsed ==
  (lastOp.op = "beforeRender" /\ frame.frames >= 2) =>
    /\ frame.deltaTime = frame.elapsed
    /\ frame.moved = playerUpdate(frame.inputState, frame.elapsed)


====
